---- MODULE Spec2Model ----
(***************************************************************************)
(* Model of the Cursive application context (src/src/lib.rs): the screen   *)
(* list and active-screen selector, the global key-binding table, the      *)
(* menubar overlay, and the layout / draw / poll / dispatch event loop.    *)
(*                                                                         *)
(* The context is the record `siv`.  Besides the fields of struct Cursive  *)
(* it carries two ghost fields that let the methods be written as          *)
(* operators from context to context:                                      *)
(*   trace    - the calls the method has made on its collaborators (the    *)
(*              backend, the menubar, the active screen) and the           *)
(*              callbacks it has invoked, in order;                        *)
(*   panicked - the method diverged with panic! and the thread unwinds.    *)
(* Screen ids are 0-based as in the source; TLA+ sequences are 1-based, so *)
(* screen id i is screens[i + 1].                                          *)
(***************************************************************************)
EXTENDS Integers, Sequences, FiniteSets, TLC

\* ---- bounds ----------------------------------------------------------------
MaxScreens == 2
MaxLayers == 1
NumViews == 1

\* Bounds of the specification of the layer stack (SpecL).
LMaxLayers == 3
LNumViews == 3

\* ---- values ----------------------------------------------------------------
Events == {"q", "Esc", "WindowResize"}

\* The events application code binds in the global table in this model.
BoundKeys == {"q", "Esc"}

\* The ids of the view objects application code creates in this model.
Views == 1..NumViews

\* A view object as application code builds it before handing it over: an
\* IdView around a view of some concrete type, with its initial content.
\* Views 1 and 2 carry the same name and differ in type.
ViewName(v) == IF v <= 2 THEN "text" ELSE "other"

ViewType(v) == IF v % 2 = 1 THEN "TextView" ELSE "Dialog"

ViewTypes == {"TextView", "Dialog"}

\* Selector::Id(name), for the names in use and one no view carries.
Selectors == {"text", "other", "absent"}

\* What set_content can store in a view.
Contents == {0, 1}

\* The theme sources handed to load_theme (toml text) and load_theme_file
\* (a path), and what the external loader makes of them.
ThemeTexts == {"a", "malformed"}

ThemeFiles == {"b.toml", "missing.toml"}

Theme_load_theme(content) ==
    IF content = "a" THEN [ok |-> TRUE, theme |-> "a"] ELSE [ok |-> FALSE, theme |-> "none"]

Theme_load_theme_file(filename) ==
    IF filename = "b.toml" THEN [ok |-> TRUE, theme |-> "b"] ELSE [ok |-> FALSE, theme |-> "none"]

View(v) == [id |-> v, name |-> ViewName(v), type |-> ViewType(v), content |-> 0]

ScreenIds == 0..MaxScreens

Sizes == {[x |-> 4, y |-> 2], [x |-> 6, y |-> 3]}

InitialSize == [x |-> 4, y |-> 2]

\* Option<Callback>::None
None == [f |-> "None", arg |-> 0]

Cb(f, arg) == [f |-> f, arg |-> arg]

\* The closures application code hands to the context: each one is a call of
\* one public method on the &mut Cursive it receives.  The argument is a
\* number; set_autohide_menu takes 1 for true and 0 for false.
Callbacks ==
    {Cb("quit", 0), Cb("select_menubar", 0), Cb("add_screen", 0),
     Cb("add_active_screen", 0), Cb("pop_layer", 0)}
    \cup {Cb("set_autohide_menu", b) : b \in {0, 1}}
    \cup {Cb("set_screen", i) : i \in ScreenIds}
    \cup {Cb("add_layer", v) : v \in Views}

\* The closures registered in the global table in this model.
GlobalCallbacks == {Cb("quit", 0), Cb("add_screen", 0)}

Ignored == [kind |-> "Ignored", cb |-> None]

Consumed(cb) == [kind |-> "Consumed", cb |-> cb]

EventResults == {Ignored, Consumed(None)} \cup {Consumed(cb) : cb \in Callbacks}

VARIABLES siv, pc, event, termSize, stale, inits, finishes

vars == <<siv, pc, event, termSize, stale, inits, finishes>>

\* ---- ghost helpers ---------------------------------------------------------
\* One entry per call; `with` is a record of the call's arguments and results.
Log(s, call, arg) == [s EXCEPT !.trace = Append(@, [call |-> call, with |-> arg])]

Panic(s) == [s EXCEPT !.panicked = TRUE]

Begin(s) == [s EXCEPT !.trace = <<>>]

Calls(s) == [i \in 1..Len(s.trace) |-> s.trace[i].call]

Made(s, call) == \E i \in 1..Len(s.trace) : s.trace[i].call = call

Count(s, call) == Cardinality({i \in 1..Len(s.trace) : s.trace[i].call = call})

\* ---- menubar (view::Menubar) -----------------------------------------------
Menubar_new(autohide) == [autohide |-> autohide, focused |-> FALSE]

receive_events(m) == m.focused

visible(m) == (~m.autohide) \/ m.focused

take_focus(m) == [m EXCEPT !.focused = TRUE]

\* ---- screens (view::StackView) ---------------------------------------------
StackView_new == <<>>

StackView_add_layer(layers, view) == Append(layers, view)

StackView_pop_layer(layers) ==
    IF Len(layers) = 0 THEN layers ELSE SubSeq(layers, 1, Len(layers) - 1)

\* The layers that receive an event offered to the stack: the topmost one.
StackView_offered(layers) ==
    IF Len(layers) = 0 THEN <<>> ELSE <<layers[Len(layers)].id>>

\* The result of offering an event to the stack: the answer of the topmost
\* layer (top), or Ignored when there is no layer.
StackView_on_event(layers, top) == IF Len(layers) = 0 THEN Ignored ELSE top

\* StackView::find: the layers are searched from the top; the result is the
\* position of the first layer that matches the selector, or 0.
StackView_find(layers, sel) ==
    LET m == {i \in 1..Len(layers) : layers[i].name = sel} IN
    IF m = {} THEN 0 ELSE CHOOSE i \in m : \A j \in m : j <= i

\* ---- Cursive ---------------------------------------------------------------
Cursive_new(autohide) ==
    [theme |-> "default",
     screens |-> <<StackView_new>>,
     global_callbacks |-> [e \in Events |-> None],
     menubar |-> Menubar_new(autohide),
     active_screen |-> 0,
     running |-> TRUE,
     trace |-> <<[call |-> "B.init", with |-> [n |-> 0]]>>,
     panicked |-> FALSE]

select_menubar(s) == [s EXCEPT !.menubar = take_focus(@)]

set_autohide_menu(s, autohide) == [s EXCEPT !.menubar.autohide = autohide]

\* Variant: the first screen is taken for the active one.
screen_first(s) == s.screens[1]

screen(s) == s.screens[s.active_screen + 1]

\* screens.get_mut(id).unwrap(): panics when the active id is no index.
screen_mut_ok(s) == s.active_screen < Len(s.screens)

\* Variant: the length is read after the push.
add_screen_res_after(s) == Len(s.screens) + 1

add_screen_res(s) == Len(s.screens)

add_screen(s) == [s EXCEPT !.screens = Append(@, StackView_new)]

\* Variant: the range check is off by one.
set_screen_off_by_one(s, screen_id) ==
    IF screen_id > Len(s.screens)
    THEN Panic(s)
    ELSE [s EXCEPT !.active_screen = screen_id]

\* Variant: the id is stored before it is checked.
set_screen_store_first(s, screen_id) ==
    IF screen_id >= Len(s.screens)
    THEN Panic([s EXCEPT !.active_screen = screen_id])
    ELSE [s EXCEPT !.active_screen = screen_id]

set_screen(s, screen_id) ==
    IF screen_id >= Len(s.screens)
    THEN Panic(s)
    ELSE [s EXCEPT !.active_screen = screen_id]

add_active_screen(s) == set_screen(add_screen(s), add_screen_res(s))

\* Variant: a key that is already bound keeps its binding (entry().or_insert).
add_global_callback_keep_first(s, e, cb) ==
    Log([s EXCEPT !.global_callbacks[e] = IF @ = None THEN cb ELSE @],
        "global_callbacks.insert",
        [event |-> e, cb |-> cb, replaced |-> s.global_callbacks[e]])

\* HashMap::insert returns the value it replaces; the method drops it.
add_global_callback(s, e, cb) ==
    Log([s EXCEPT !.global_callbacks[e] = cb], "global_callbacks.insert",
        [event |-> e, cb |-> cb, replaced |-> s.global_callbacks[e]])

\* Variant: the new layer goes under the ones already there.
add_layer_under(s, view) ==
    IF screen_mut_ok(s)
    THEN [s EXCEPT !.screens[s.active_screen + 1] = <<view>> \o @]
    ELSE Panic(s)

add_layer(s, view) ==
    IF screen_mut_ok(s)
    THEN [s EXCEPT !.screens[s.active_screen + 1] = StackView_add_layer(@, view)]
    ELSE Panic(s)

pop_layer(s) ==
    IF screen_mut_ok(s)
    THEN [s EXCEPT !.screens[s.active_screen + 1] = StackView_pop_layer(@)]
    ELSE Panic(s)

\* Variant: the flag is flipped.
quit_toggle(s) == [s EXCEPT !.running = ~@]

quit(s) == [s EXCEPT !.running = FALSE]

\* self.theme = try!(theme::load_theme_file(filename)); Ok(())
load_theme_file(s, filename) ==
    LET r == Theme_load_theme_file(filename) IN
    IF r.ok
    THEN Log([s EXCEPT !.theme = r.theme], "load_theme_file.returned", [ok |-> TRUE])
    ELSE Log(s, "load_theme_file.returned", [ok |-> FALSE])

\* Variant: a failed load falls back to the built-in theme.
load_theme_reset(s, content) ==
    LET r == Theme_load_theme(content) IN
    IF r.ok
    THEN Log([s EXCEPT !.theme = r.theme], "load_theme.returned", [ok |-> TRUE])
    ELSE Log([s EXCEPT !.theme = "default"], "load_theme.returned", [ok |-> FALSE])

\* self.theme = try!(theme::load_theme(content)); Ok(())
load_theme(s, content) ==
    LET r == Theme_load_theme(content) IN
    IF r.ok
    THEN Log([s EXCEPT !.theme = r.theme], "load_theme.returned", [ok |-> TRUE])
    ELSE Log(s, "load_theme.returned", [ok |-> FALSE])

\* A reference into the active screen is the position of the layer; 0 is None.
find_any(s, sel) == StackView_find(screen(s), sel)

\* Variant: the reference is handed out without the downcast.
find_unchecked(s, sel, V) == find_any(s, sel)

\* match self.find_any(sel) { None => None, Some(b) => b.downcast_mut::<V>() }
find(s, sel, V) ==
    LET b == find_any(s, sel) IN
    IF b = 0 THEN 0 ELSE IF screen(s)[b].type = V THEN b ELSE 0

find_id(s, id, V) == find(s, id, V)

\* The caller writes through the reference find returned.
set_content(s, b, c) == [s EXCEPT !.screens[s.active_screen + 1][b].content = c]

\* cb(self): the closure runs to completion against the context.
Invoke(cb, s) ==
    LET t == Log(s, "callback", [cb |-> cb]) IN
    CASE cb.f = "quit" -> quit(t)
      [] cb.f = "select_menubar" -> select_menubar(t)
      [] cb.f = "add_screen" -> add_screen(t)
      [] cb.f = "add_active_screen" -> add_active_screen(t)
      [] cb.f = "pop_layer" -> pop_layer(t)
      [] cb.f = "set_autohide_menu" -> set_autohide_menu(t, cb.arg = 1)
      [] cb.f = "set_screen" -> set_screen(t, cb.arg)
      [] cb.f = "add_layer" -> add_layer(t, View(cb.arg))

\* Variant: the bound callback is called once for the lookup and once more.
on_event_twice(s, e) ==
    LET t == Log(s, "global_callbacks.get", [event |-> e])
        cb == s.global_callbacks[e]
    IN IF cb = None THEN t ELSE Invoke(cb, Invoke(cb, t))

on_event(s, e) ==
    LET t == Log(s, "global_callbacks.get", [event |-> e])
        cb == s.global_callbacks[e]
    IN IF cb = None THEN t ELSE Invoke(cb, t)

screen_size == [x |-> termSize.x, y |-> termSize.y]

\* Variant: the row the bar reserves is taken off the size.
layout_minus_bar(s) ==
    LET size == [screen_size EXCEPT !.y = IF s.menubar.autohide THEN @ ELSE @ - 1] IN
    IF screen_mut_ok(s)
    THEN Log(s, "screen.layout", [size |-> size, screen |-> s.active_screen])
    ELSE Panic(s)

layout(s) ==
    LET size == screen_size IN
    IF screen_mut_ok(s)
    THEN Log(s, "screen.layout", [size |-> size, screen |-> s.active_screen])
    ELSE Panic(s)

\* Variant: the row is reserved whenever the bar is visible.
draw_offset_if_visible(s) ==
    LET offset == IF visible(s.menubar) THEN 1 ELSE 0
        t1 == IF visible(s.menubar)
              THEN Log(s, "menubar.draw", [focused |-> receive_events(s.menubar)])
              ELSE s
        selected == receive_events(s.menubar)
    IN IF screen_mut_ok(s)
       THEN Log(Log(t1, "screen.draw",
                    [offset |-> offset, focused |-> ~selected, layers |-> screen(s),
                     screen |-> s.active_screen]),
                "B.refresh", [n |-> 0])
       ELSE Panic(t1)

\* Variant: the screen is always drawn as focused.
draw_screen_focused(s) ==
    LET offset == IF s.menubar.autohide THEN 0 ELSE 1
        t1 == IF visible(s.menubar)
              THEN Log(s, "menubar.draw", [focused |-> receive_events(s.menubar)])
              ELSE s
    IN IF screen_mut_ok(s)
       THEN Log(Log(t1, "screen.draw",
                    [offset |-> offset, focused |-> TRUE, layers |-> screen(s),
                     screen |-> s.active_screen]),
                "B.refresh", [n |-> 0])
       ELSE Panic(t1)

\* Variant: the pass is not flushed to the terminal.
draw_no_refresh(s) ==
    LET offset == IF s.menubar.autohide THEN 0 ELSE 1
        t1 == IF visible(s.menubar)
              THEN Log(s, "menubar.draw", [focused |-> receive_events(s.menubar)])
              ELSE s
        selected == receive_events(s.menubar)
    IN IF screen_mut_ok(s)
       THEN Log(t1, "screen.draw",
                [offset |-> offset, focused |-> ~selected, layers |-> screen(s),
                 screen |-> s.active_screen])
       ELSE Panic(t1)

draw(s) ==
    LET offset == IF s.menubar.autohide THEN 0 ELSE 1
        t1 == IF visible(s.menubar)
              THEN Log(s, "menubar.draw", [focused |-> receive_events(s.menubar)])
              ELSE s
        selected == receive_events(s.menubar)
    IN IF screen_mut_ok(s)
       THEN Log(Log(t1, "screen.draw",
                    [offset |-> offset, focused |-> ~selected, layers |-> screen(s),
                     screen |-> s.active_screen]),
                "B.refresh", [n |-> 0])
       ELSE Panic(t1)

\* Variant: the resize signal is not followed by a clear.
poll_no_clear(s, e) == Log(s, "B.poll_event", [event |-> e])

\* let event = B::poll_event(); if event == Event::WindowResize { B::clear(); }
poll(s, e) ==
    LET t == Log(s, "B.poll_event", [event |-> e]) IN
    IF e = "WindowResize" THEN Log(t, "B.clear", [n |-> 0]) ELSE t

\* Menubar::on_event: the bar answers mr and keeps or gives up the focus; it
\* keeps it when it ignores the event.
Menubar_on_event(m, mr, keep) ==
    [m EXCEPT !.focused = IF mr.kind = "Ignored" THEN TRUE ELSE keep]

\* Variant: an event the menubar ignores falls through to the global table.
dispatch_fallthrough(s, e, mr, keep, sr) ==
    IF receive_events(s.menubar)
    THEN LET t == Log([s EXCEPT !.menubar = Menubar_on_event(@, mr, keep)],
                      "menubar.on_event", [event |-> e, result |-> mr])
         IN IF mr.kind = "Consumed" /\ mr.cb # None THEN Invoke(mr.cb, t)
            ELSE IF mr.kind = "Ignored" THEN on_event(t, e) ELSE t
    ELSE IF ~screen_mut_ok(s)
         THEN Panic(s)
         ELSE LET r == StackView_on_event(screen(s), sr)
                  t == Log(s, "screen.on_event",
                           [event |-> e, result |-> r,
                            offered |-> StackView_offered(screen(s))])
              IN CASE r.kind = "Ignored" -> on_event(t, e)
                   [] r.kind = "Consumed" /\ r.cb = None -> t
                   [] OTHER -> Invoke(r.cb, t)

\* Variant: an event the screen consumed without a callback is looked up in
\* the global table all the same.
dispatch_none_to_global(s, e, mr, keep, sr) ==
    IF receive_events(s.menubar)
    THEN LET t == Log([s EXCEPT !.menubar = Menubar_on_event(@, mr, keep)],
                      "menubar.on_event", [event |-> e, result |-> mr])
         IN IF mr.kind = "Consumed" /\ mr.cb # None THEN Invoke(mr.cb, t) ELSE t
    ELSE IF ~screen_mut_ok(s)
         THEN Panic(s)
         ELSE LET r == StackView_on_event(screen(s), sr)
                  t == Log(s, "screen.on_event",
                           [event |-> e, result |-> r,
                            offered |-> StackView_offered(screen(s))])
              IN CASE r.kind = "Ignored" -> on_event(t, e)
                   [] r.kind = "Consumed" /\ r.cb = None -> on_event(t, e)
                   [] OTHER -> Invoke(r.cb, t)

\* The dispatch part of one loop iteration.  mr / keep: what the menubar
\* answers if asked; sr: what the topmost layer answers if asked.
dispatch(s, e, mr, keep, sr) ==
    IF receive_events(s.menubar)
    THEN LET t == Log([s EXCEPT !.menubar = Menubar_on_event(@, mr, keep)],
                      "menubar.on_event", [event |-> e, result |-> mr])
         IN IF mr.kind = "Consumed" /\ mr.cb # None THEN Invoke(mr.cb, t) ELSE t
    ELSE IF ~screen_mut_ok(s)
         THEN Panic(s)
         ELSE LET r == StackView_on_event(screen(s), sr)
                  t == Log(s, "screen.on_event",
                           [event |-> e, result |-> r,
                            offered |-> StackView_offered(screen(s))])
              IN CASE r.kind = "Ignored" -> on_event(t, e)
                   [] r.kind = "Consumed" /\ r.cb = None -> t
                   [] OTHER -> Invoke(r.cb, t)

\* ---- bounds on the reachable contexts --------------------------------------
AllLayers(s) == UNION {{s.screens[i][j].id : j \in 1..Len(s.screens[i])} : i \in 1..Len(s.screens)}

RECURSIVE SumLen(_, _)
SumLen(ss, n) == IF n = 0 THEN 0 ELSE Len(ss[n]) + SumLen(ss, n - 1)

\* Every view is owned by at most one layer stack (add_layer takes it by value).
Within(s) ==
    /\ Len(s.screens) <= MaxScreens
    /\ \A i \in 1..Len(s.screens) : Len(s.screens[i]) <= MaxLayers
    /\ SumLen(s.screens, Len(s.screens)) = Cardinality(AllLayers(s))

After(s) == IF s.panicked THEN "unwinding" ELSE "setup"

\* ---- the declarative phase: application code calls the public methods ------
Api(s) ==
    /\ pc = "setup"
    /\ Within(s)
    /\ siv' = s
    /\ pc' = After(s)
    /\ UNCHANGED <<event, termSize, stale, inits, finishes>>

\* The id the method returns is logged after the call.
AddScreen ==
    Api(Log(add_screen(Log(Begin(siv), "add_screen", [n |-> 0])),
            "returned", [n |-> add_screen_res(siv)]))

AddActiveScreen ==
    Api(Log(add_active_screen(Log(Begin(siv), "add_active_screen", [n |-> 0])),
            "returned", [n |-> add_screen_res(siv)]))

SetScreen == \E id \in ScreenIds : Api(set_screen(Log(Begin(siv), "set_screen", [n |-> id]), id))

AddGlobalCallback ==
    \E e \in BoundKeys, cb \in GlobalCallbacks :
        Api(add_global_callback(Log(Begin(siv), "add_global_callback", [event |-> e, cb |-> cb]), e, cb))

AddLayer == \E v \in Views : Api(add_layer(Log(Begin(siv), "add_layer", [n |-> v]), View(v)))

PopLayer == Api(pop_layer(Log(Begin(siv), "pop_layer", [n |-> 0])))

SetAutohideMenu ==
    \E b \in BOOLEAN : Api(set_autohide_menu(Log(Begin(siv), "set_autohide_menu", [autohide |-> b]), b))

SelectMenubar == Api(select_menubar(Log(Begin(siv), "select_menubar", [n |-> 0])))

Quit == Api(quit(Log(Begin(siv), "quit", [n |-> 0])))

\* ---- run(): while self.running { layout; draw; poll; dispatch } ------------
Run ==
    /\ pc = "setup"
    /\ pc' = "loop"
    /\ siv' = Log(Begin(siv), "run", [n |-> 0])
    /\ UNCHANGED <<event, termSize, stale, inits, finishes>>

\* Variant: the loop does not test the flag.
LoopCond_forever(s) == TRUE

LoopCond(s) == s.running

Step(s, next) ==
    /\ siv' = s
    /\ pc' = IF s.panicked THEN "unwinding" ELSE next

Layout ==
    /\ pc = "loop"
    /\ LoopCond(siv)
    /\ Step(layout(Begin(siv)), "draw")
    /\ UNCHANGED <<event, termSize, stale, inits, finishes>>

Draw ==
    /\ pc = "draw"
    /\ Step(draw(Begin(siv)), "poll")
    /\ UNCHANGED <<event, termSize, stale, inits, finishes>>

\* The terminal is resized by its user; the backend then reports the resize
\* signal and, from then on, the new size.  What is on the terminal is stale
\* until the backend clears it.
Poll ==
    /\ pc = "poll"
    /\ \E e \in Events, sz \in Sizes :
        /\ e # "WindowResize" => sz = termSize
        /\ Step(poll(Begin(siv), e), "dispatch")
        /\ event' = e
        /\ termSize' = sz
        /\ stale' = IF Made(siv', "B.clear") THEN FALSE ELSE (stale \/ e = "WindowResize")
    /\ UNCHANGED <<inits, finishes>>

Dispatch ==
    /\ pc = "dispatch"
    /\ \E r \in EventResults, keep \in BOOLEAN :
        LET s == dispatch(Begin(siv), event, r, keep, r) IN
        /\ receive_events(siv.menubar) \/ keep
        /\ Within(s)
        /\ Step(s, "loop")
    /\ event' = "none"
    /\ UNCHANGED <<termSize, stale, inits, finishes>>

Return ==
    /\ pc = "loop"
    /\ ~LoopCond(siv)
    /\ pc' = "setup"
    /\ siv' = Log(Begin(siv), "return", [n |-> 0])
    /\ UNCHANGED <<event, termSize, stale, inits, finishes>>

\* impl Drop for Cursive: the owner's scope ends, or the thread unwinds.  The
\* destructor's calls follow those of the method that ran last.
\* Variant: the backend is finished twice.
drop_twice(s) == Log(Log(s, "B.finish", [n |-> 0]), "B.finish", [n |-> 0])

drop(s) == Log(s, "B.finish", [n |-> 0])

Drop ==
    /\ pc \in {"setup", "unwinding"}
    /\ siv' = drop(siv)
    /\ finishes' = finishes + Count(siv', "B.finish")
    /\ pc' = "dropped"
    /\ UNCHANGED <<event, termSize, stale, inits>>

Init ==
    /\ siv \in {Cursive_new(a) : a \in BOOLEAN}
    /\ pc = "setup"
    /\ event = "none"
    /\ termSize = InitialSize
    /\ stale = FALSE
    /\ inits = Count(siv, "B.init")
    /\ finishes = 0

Next ==
    \/ AddScreen
    \/ AddActiveScreen
    \/ SetScreen
    \/ AddGlobalCallback
    \/ AddLayer
    \/ PopLayer
    \/ SetAutohideMenu
    \/ SelectMenubar
    \/ Quit
    \/ Run
    \/ Layout
    \/ Draw
    \/ Poll
    \/ Dispatch
    \/ Return
    \/ Drop

Spec == Init /\ [][Next]_vars

\* ---- the layer stack, lookup and theme: the same loop, other bounds ---------
LViews == 1..LNumViews

LCallbacks == {Cb("quit", 0), Cb("pop_layer", 0)}

LEventResults == {Ignored, Consumed(None)} \cup {Consumed(cb) : cb \in LCallbacks}

LWithin(s) ==
    /\ Len(s.screens) <= MaxScreens
    /\ \A i \in 1..Len(s.screens) : Len(s.screens[i]) <= LMaxLayers
    /\ SumLen(s.screens, Len(s.screens)) = Cardinality(AllLayers(s))

LApi(s) ==
    /\ pc = "setup"
    /\ LWithin(s)
    /\ siv' = s
    /\ pc' = After(s)
    /\ UNCHANGED <<event, termSize, stale, inits, finishes>>

LAddLayer == \E v \in LViews : LApi(add_layer(Log(Begin(siv), "add_layer", [n |-> v]), View(v)))

LPopLayer == LApi(pop_layer(Log(Begin(siv), "pop_layer", [n |-> 0])))

LAddActiveScreen ==
    LApi(Log(add_active_screen(Log(Begin(siv), "add_active_screen", [n |-> 0])),
             "returned", [n |-> add_screen_res(siv)]))

LSetScreen == \E id \in ScreenIds : LApi(set_screen(Log(Begin(siv), "set_screen", [n |-> id]), id))

\* s.find_id::<V>(id); when V is TextView and there is a reference, the
\* caller does set_content(c) through it.
FindId ==
    \E sel \in Selectors, V \in ViewTypes, c \in Contents :
        LET t == Log(Begin(siv), "find_id", [sel |-> sel, vtype |-> V]) IN
        IF ~screen_mut_ok(t)
        THEN c = 0 /\ LApi(Panic(t))
        ELSE LET b == find_id(t, sel, V) IN
             IF b = 0
             THEN c = 0 /\ LApi(Log(t, "find_id.returned", [found |-> <<>>]))
             ELSE IF V = "TextView"
                  THEN LApi(Log(Log(set_content(t, b, c), "find_id.returned",
                                    [found |-> <<screen(t)[b].id>>]),
                                "set_content", [n |-> c]))
                  ELSE c = 0 /\ LApi(Log(t, "find_id.returned",
                                         [found |-> <<screen(t)[b].id>>]))

LoadTheme ==
    \E content \in ThemeTexts :
        Api(load_theme(Log(Begin(siv), "load_theme", [source |-> content]), content))

LoadThemeFile ==
    \E filename \in ThemeFiles :
        Api(load_theme_file(Log(Begin(siv), "load_theme_file", [source |-> filename]), filename))

\* Key presses only: the terminal is not resized here.
LPoll ==
    /\ pc = "poll"
    /\ \E e \in BoundKeys :
        /\ Step(poll(Begin(siv), e), "dispatch")
        /\ event' = e
    /\ UNCHANGED <<termSize, stale, inits, finishes>>

LDispatch ==
    /\ pc = "dispatch"
    /\ \E r \in LEventResults :
        LET s == dispatch(Begin(siv), event, r, TRUE, r) IN
        /\ LWithin(s)
        /\ Step(s, "loop")
    /\ event' = "none"
    /\ UNCHANGED <<termSize, stale, inits, finishes>>

NextL ==
    \/ LAddLayer
    \/ LPopLayer
    \/ LAddActiveScreen
    \/ LSetScreen
    \/ FindId
    \/ Run
    \/ Layout
    \/ Draw
    \/ LPoll
    \/ LDispatch
    \/ Return

\* The layer stack is exercised with the bar always visible and unfocused.
InitL == Init /\ ~siv.menubar.autohide

SpecL == InitL /\ [][NextL]_vars

\* ---- theme reload -----------------------------------------------------------
NextT ==
    \/ LoadTheme
    \/ LoadThemeFile
    \/ AddActiveScreen
    \/ SetScreen
    \/ SetAutohideMenu
    \/ SelectMenubar
    \/ Quit
    \/ Run
    \/ Layout
    \/ Draw
    \/ Poll
    \/ LDispatch
    \/ Return

SpecT == Init /\ [][NextT]_vars

TypeOK ==
    /\ pc \in {"setup", "loop", "draw", "poll", "dispatch", "unwinding", "dropped"}
    /\ event \in Events \cup {"none"}
    /\ termSize \in Sizes
    /\ stale \in BOOLEAN
    /\ inits = 1
    /\ finishes \in 0..2

\* ---- helpers for the properties ---------------------------------------------
\* The fields of struct Cursive, without the ghost fields.
Fields(s) == [s EXCEPT !.trace = <<>>, !.panicked = FALSE]

\* The step just taken was the direct call `call` of the public API.
Called(s, call) == Len(s.trace) >= 1 /\ s.trace[1].call = call

\* The callbacks invoked during the step just taken, in order.
Invoked(s) ==
    LET idx == {i \in 1..Len(s.trace) : s.trace[i].call = "callback"}
        F[i \in 0..Len(s.trace)] ==
            IF i = 0 THEN <<>>
            ELSE IF i \in idx THEN Append(F[i - 1], s.trace[i].with.cb) ELSE F[i - 1]
    IN F[Len(s.trace)]

\* ---- C1 ---------------------------------------------------------------------
\* C1: after construction and after any sequence of add_screen,
\* add_active_screen and set_screen calls (out-of-range ones included, which
\* panic), the active-screen index is below the number of screens and there
\* is at least one screen.
C1_ActiveScreenValid ==
    /\ Len(siv.screens) >= 1
    /\ siv.active_screen < Len(siv.screens)

\* A set_screen call with an out-of-range id has panicked while a screen other
\* than the first one was active.
C1_Witness ==
    /\ Called(siv, "set_screen")
    /\ siv.panicked
    /\ siv.trace[1].with.n >= Len(siv.screens)
    /\ siv.active_screen = 1

\* ---- C2 ---------------------------------------------------------------------
\* The step is set_screen(id): called directly, or as the callback the active
\* screen returned for the polled event.
SetScreenStep(id) ==
    \/ /\ pc = "setup"
       /\ Called(siv', "set_screen")
       /\ siv'.trace[1].with.n = id
    \/ /\ pc = "dispatch"
       /\ ~receive_events(siv.menubar)
       /\ Invoked(siv') = <<Cb("set_screen", id)>>

\* C2: set_screen(id) with id >= number of screens panics and leaves the
\* active index, the screen list, the key-binding table, the overlay and the
\* running flag as they were; with id < number of screens it sets the active
\* index to id and changes nothing else.
C2_SetScreen ==
    [][\A id \in ScreenIds :
         SetScreenStep(id) =>
            IF id >= Len(siv.screens)
            THEN siv'.panicked /\ Fields(siv') = Fields(siv)
            ELSE /\ ~siv'.panicked
                 /\ Fields(siv') = [Fields(siv) EXCEPT !.active_screen = id]]_vars

\* An in-range set_screen has switched away from the first screen.
C2_Witness ==
    /\ Called(siv, "set_screen")
    /\ ~siv.panicked
    /\ siv.trace[1].with.n = 1
    /\ siv.active_screen = 1

C4_GlobalFallback ==
    [][(/\ pc = "dispatch"
        /\ ~receive_events(siv.menubar)
        /\ Called(siv', "screen.on_event")
        /\ siv'.trace[1].with.result = Ignored) =>
         LET cb == siv.global_callbacks[event] IN
         IF cb = None
         THEN /\ Calls(siv') = <<"screen.on_event", "global_callbacks.get">>
              /\ Fields(siv') = Fields(siv)
         ELSE /\ Calls(siv') = <<"screen.on_event", "global_callbacks.get", "callback">>
              /\ Invoked(siv') = <<cb>>
              /\ Fields(siv') = Fields(Invoke(cb, siv))]_vars

\* The screen ignored a bound event and the bound callback, which is not
\* idempotent, has run.
C4_Witness ==
    /\ Calls(siv) = <<"screen.on_event", "global_callbacks.get", "callback">>
    /\ siv.trace[1].with.result = Ignored
    /\ Invoked(siv) = <<Cb("add_screen", 0)>>

\* ---- C5 ---------------------------------------------------------------------
QuitInvoked(s) == \E i \in 1..Len(s.trace) : s.trace[i].call = "callback" /\ s.trace[i].with.cb = Cb("quit", 0)

Iterates(s) == Made(s, "screen.layout") \/ Made(s, "screen.draw") \/ Made(s, "B.poll_event")

\* C5: a quit made by a callback dispatched in a loop iteration lets the
\* dispatch of the current event finish; the loop then exits at the iteration
\* boundary: the next step of the loop is the return of run, and once the flag
\* is down there is no further layout, draw or poll_event.
C5_QuitStopsLoop ==
    [][/\ (pc = "dispatch" /\ QuitInvoked(siv')) => (pc' = "loop" /\ ~siv'.running)
       /\ (pc = "loop" /\ QuitInvoked(siv)) => (pc' = "setup" /\ Calls(siv') = <<"return">>)
       /\ ~siv.running => ~Iterates(siv')]_vars

\* A dispatched callback has called quit and the iteration is over.
C5_Witness ==
    /\ pc = "loop"
    /\ QuitInvoked(siv)
    /\ ~siv.running

\* ---- C6 ---------------------------------------------------------------------
\* C6: the backend's finish runs exactly once for the context, when the
\* context is destroyed after the loop has ended (by return or by unwinding):
\* never while the loop iterates, never twice, never without the init made at
\* construction; a destroyed context has finished the backend once, not zero
\* times.
C6_FinishOnce ==
    /\ inits = 1
    /\ finishes <= inits
    /\ pc = "dropped" <=> finishes = 1
    /\ pc # "dropped" => finishes = 0
    /\ Made(siv, "B.finish") => (pc = "dropped" /\ Count(siv, "B.finish") = 1)

\* Quit ended the loop, run returned and the context was then destroyed.
C6_Witness ==
    /\ pc = "dropped"
    /\ ~siv.running
    /\ Calls(siv) = <<"return", "B.finish">>
    /\ finishes = 1

\* ---- C7 ---------------------------------------------------------------------
\* C7: the global table holds one callback per key, the last one registered:
\* add_global_callback(e, c) makes c the binding of e, whatever was bound
\* before, and leaves the other keys alone; an event that reaches the table
\* invokes the binding the table holds for it and nothing else.
C7_LastBindingWins ==
    [][/\ (pc = "setup" /\ Called(siv', "add_global_callback")) =>
            LET e == siv'.trace[1].with.event
                cb == siv'.trace[1].with.cb
            IN /\ siv'.global_callbacks[e] = cb
               /\ \A k \in Events \ {e} : siv'.global_callbacks[k] = siv.global_callbacks[k]
               /\ Fields(siv') = [Fields(siv) EXCEPT !.global_callbacks[e] = cb]
       /\ (pc = "dispatch" /\ Made(siv', "global_callbacks.get")) =>
            Invoked(siv') = IF siv.global_callbacks[event] = None
                            THEN <<>>
                            ELSE <<siv.global_callbacks[event]>>]_vars

\* A second registration for a key has replaced a different callback.
C7_Witness ==
    /\ Called(siv, "add_global_callback")
    /\ Len(siv.trace) = 2
    /\ siv.trace[2].call = "global_callbacks.insert"
    /\ siv.trace[2].with.replaced # None
    /\ siv.trace[2].with.replaced # siv.trace[2].with.cb
    /\ siv.global_callbacks[siv.trace[2].with.event] = siv.trace[2].with.cb

\* ---- C8 ---------------------------------------------------------------------
\* The entry of the draw pass for the active screen.
ScreenDrawn(s) == \E i \in 1..Len(s.trace) : s.trace[i].call = "screen.draw"

ScreenDraw(s) == s.trace[CHOOSE i \in 1..Len(s.trace) : s.trace[i].call = "screen.draw"].with

BarDrawn(s) == Made(s, "menubar.draw")

\* C8: every draw pass draws the active screen one row down when autohide is
\* false and at row zero when autohide is true, focused menubar or not; a
\* set_autohide_menu made by a dispatched callback sets the flag the next draw
\* pass reads (the layout step in between leaves it alone).
C8_OffsetFollowsAutohide ==
    [][/\ pc = "draw" =>
            (ScreenDrawn(siv') /\ ScreenDraw(siv').offset = IF siv.menubar.autohide THEN 0 ELSE 1)
       /\ \A b \in {0, 1} :
            (pc = "dispatch" /\ Invoked(siv') = <<Cb("set_autohide_menu", b)>>) =>
                siv'.menubar.autohide = (b = 1)
       /\ pc = "loop" => siv'.menubar = siv.menubar]_vars

\* A draw pass with autohide on and the menubar focused drew the screen at
\* row zero.
C8_Witness ==
    /\ pc = "poll"
    /\ ScreenDrawn(siv)
    /\ siv.menubar.autohide
    /\ siv.menubar.focused
    /\ ScreenDraw(siv).offset = 0

\* ---- C9 ---------------------------------------------------------------------
\* C9: in every draw pass the bar reserves one row when autohide is false,
\* focused or not; when autohide is true it reserves a row exactly in the
\* passes where it is focused; so the screen is never drawn over a row the
\* visible bar occupies.
C9_RowReservedWhenVisible ==
    (pc = "poll" /\ ScreenDrawn(siv)) =>
        /\ ~siv.menubar.autohide => ScreenDraw(siv).offset = 1
        /\ siv.menubar.autohide =>
              (ScreenDraw(siv).offset = 1 <=> siv.menubar.focused)
        /\ BarDrawn(siv) => ScreenDraw(siv).offset >= 1

\* ---- C10 --------------------------------------------------------------------
\* C10: a poll_event that returns the resize signal is followed by exactly
\* one backend clear, before the event is dispatched and before the next
\* draw, so nothing stale is ever dispatched on or drawn over; the layout
\* pass uses the size the backend reports when it runs; an event that is
\* not the resize signal triggers no clear.
C10_ResizeClears ==
    /\ ~stale
    /\ pc = "dispatch" =>
          Calls(siv) = IF event = "WindowResize"
                       THEN <<"B.poll_event", "B.clear">>
                       ELSE <<"B.poll_event">>
    /\ Made(siv, "B.clear") => (pc = "dispatch" /\ event = "WindowResize")
    /\ Made(siv, "screen.layout") => siv.trace[1].with.size = termSize

\* After a resize to another size, the layout pass used the new size.
C10_Witness ==
    /\ Made(siv, "screen.layout")
    /\ termSize # InitialSize
    /\ siv.trace[1].with.size = termSize

\* ---- C11 --------------------------------------------------------------------
\* The layers of the active screen, read off the fields.
ActiveLayers(s) == s.screens[s.active_screen + 1]

\* The positions in the active screen of the views a selector matches, and the
\* one the stack reports (the topmost).
Matches(s, sel) == {i \in 1..Len(ActiveLayers(s)) : ActiveLayers(s)[i].name = sel}

TopMatch(s, sel) == CHOOSE i \in Matches(s, sel) : \A j \in Matches(s, sel) : j <= i

\* C11: find with a selector and an expected type never aborts; it returns a
\* reference only to a view of the active screen that matches the selector
\* and has the expected type; when no view matches, or the matched view has
\* another type, it returns nothing and the context is as before; what the
\* caller stores through a returned reference is the only change, and a draw
\* paints the layers with what they hold at that moment.
C11_FindTyped ==
    [][/\ Called(siv', "find_id") =>
            LET sel == siv'.trace[1].with.sel
                V == siv'.trace[1].with.vtype
                found == siv'.trace[2].with.found
                act == ActiveLayers(siv)
            IN /\ ~siv'.panicked
               /\ found # <<>> =>
                      /\ Matches(siv, sel) # {}
                      /\ act[TopMatch(siv, sel)].type = V
                      /\ act[TopMatch(siv, sel)].id = found[1]
               /\ (Matches(siv, sel) = {} \/ act[TopMatch(siv, sel)].type # V) =>
                      /\ found = <<>>
                      /\ Fields(siv') = Fields(siv)
               /\ Made(siv', "set_content") =>
                      /\ found # <<>>
                      /\ Fields(siv') =
                             [Fields(siv) EXCEPT
                                 !.screens[siv.active_screen + 1][TopMatch(siv, sel)].content =
                                     siv'.trace[3].with.n]
               /\ ~Made(siv', "set_content") => Fields(siv') = Fields(siv)
       /\ (pc = "draw" /\ pc' = "poll") =>
            /\ ScreenDrawn(siv')
            /\ ScreenDraw(siv').layers = ActiveLayers(siv)
            /\ Fields(siv') = Fields(siv)]_vars

\* A lookup by a name a view of the active screen carries came back empty
\* because that view is of another type.
C11_Witness ==
    /\ pc = "setup"
    /\ Called(siv, "find_id")
    /\ Matches(siv, siv.trace[1].with.sel) # {}
    /\ siv.trace[2].with.found = <<>>

\* ---- C12 --------------------------------------------------------------------
\* What the external loader makes of the source of the reload just made.
Loaded(s) ==
    IF Called(s, "load_theme")
    THEN Theme_load_theme(s.trace[1].with.source)
    ELSE Theme_load_theme_file(s.trace[1].with.source)

\* C12: a reload (load_theme or load_theme_file) whose source fails to load
\* returns the error and leaves the theme and every other field of the
\* context as they were; a reload whose source loads returns Ok and changes
\* the theme, and only the theme, to the loaded value.
C12_ThemeReload ==
    [][(Called(siv', "load_theme") \/ Called(siv', "load_theme_file")) =>
           /\ ~siv'.panicked
           /\ siv'.trace[2].with.ok = Loaded(siv').ok
           /\ ~Loaded(siv').ok => Fields(siv') = Fields(siv)
           /\ Loaded(siv').ok =>
                  Fields(siv') = [Fields(siv) EXCEPT !.theme = Loaded(siv').theme]]_vars

\* A reload failed after an earlier one had replaced the built-in theme.
C12_Witness ==
    /\ Called(siv, "load_theme") \/ Called(siv, "load_theme_file")
    /\ ~siv.trace[2].with.ok
    /\ siv.theme # "default"

\* ---- C13 --------------------------------------------------------------------
\* A callback that pops a layer was invoked.
PopInvoked(s) ==
    \E i \in 1..Len(s.trace) :
        s.trace[i].call = "callback" /\ s.trace[i].with.cb = Cb("pop_layer", 0)

\* C13: the layers of the active screen are kept and drawn in push order:
\* add_layer puts the new layer last (on top) and changes nothing else,
\* pop_layer removes exactly the last one (nothing from an empty screen), and
\* a draw pass paints the active screen's layers first to last, so L1, L2, L3
\* pushed in this order are painted in this order and after one pop L1, L2.
C13_PushOrder ==
    [][/\ Called(siv', "add_layer") =>
            /\ ~siv'.panicked
            /\ Fields(siv') =
                   [Fields(siv) EXCEPT !.screens[siv.active_screen + 1] =
                       Append(@, View(siv'.trace[1].with.n))]
       /\ (Called(siv', "pop_layer") \/ PopInvoked(siv')) =>
            /\ ~siv'.panicked
            /\ Fields(siv') =
                   [Fields(siv) EXCEPT !.screens[siv.active_screen + 1] =
                       SubSeq(@, 1, Len(@) - 1)]
       /\ (pc = "draw" /\ pc' = "poll") =>
            /\ Count(siv', "screen.draw") = 1
            /\ ScreenDraw(siv').layers = ActiveLayers(siv)]_vars

\* L1, L2, L3 were pushed in this order, and a pop has just left L1 under L2.
C13_Witness ==
    /\ Called(siv, "pop_layer")
    /\ [i \in 1..Len(ActiveLayers(siv)) |-> ActiveLayers(siv)[i].id] = <<1, 2>>
    /\ AllLayers(siv) = {1, 2}

\* ---- C14 --------------------------------------------------------------------
\* How often the step just made offered an event to the bar or the screen.
Offers(s) == Count(s, "menubar.on_event") + Count(s, "screen.on_event")

\* C14: while running, an iteration is layout, then draw, then poll_event,
\* then dispatch, in this order and each once: the layout is one layout of
\* the screen active at that moment, the draw is one draw of that same
\* screen and ends with the backend refresh, one event is polled, and that
\* event is offered exactly once; no step is entered except from the one
\* before it.
C14_LoopOrder ==
    [][/\ (pc = "loop" /\ siv.running) =>
            /\ pc' = "draw"
            /\ Calls(siv') = <<"screen.layout">>
            /\ siv'.trace[1].with.screen = siv.active_screen
            /\ Fields(siv') = Fields(siv)
       /\ pc = "draw" =>
            /\ pc' = "poll"
            /\ Count(siv', "screen.draw") = 1
            /\ ScreenDraw(siv').screen = siv.active_screen
            /\ Count(siv', "screen.layout") = 0
            /\ Calls(siv')[Len(siv'.trace)] = "B.refresh"
            /\ Count(siv', "B.refresh") = 1
            /\ Fields(siv') = Fields(siv)
       /\ pc = "poll" =>
            /\ pc' = "dispatch"
            /\ Count(siv', "B.poll_event") = 1
            /\ siv'.trace[1] = [call |-> "B.poll_event", with |-> [event |-> event']]
            /\ Fields(siv') = Fields(siv)
       /\ pc = "dispatch" =>
            /\ pc' \in {"loop", "unwinding"}
            /\ Offers(siv') = 1
            /\ siv'.trace[1].call \in {"menubar.on_event", "screen.on_event"}
            /\ siv'.trace[1].with.event = event
            /\ Count(siv', "B.poll_event") = 0
       /\ pc' = "draw" => pc = "loop"
       /\ pc' = "poll" => pc = "draw"
       /\ pc' = "dispatch" => pc = "poll"]_vars

\* A second screen is active, and the pass before this poll drew it.
C14_Witness ==
    /\ pc = "poll"
    /\ siv.active_screen = 1
    /\ ScreenDraw(siv).screen = 1
    /\ Calls(siv)[Len(siv.trace)] = "B.refresh"

\* ---- C15 --------------------------------------------------------------------
\* What the view the event was offered to answered.
Answer(s) == s.trace[1].with.result

\* The fields of the context apart from the view the event is offered to: the
\* menubar when it receives events, the active screen otherwise.
Besides(s, overlay) ==
    IF overlay
    THEN [Fields(s) EXCEPT !.menubar = Menubar_new(TRUE)]
    ELSE [Fields(s) EXCEPT !.screens[s.active_screen + 1] = StackView_new]

\* C15, as stated: for each polled event at most one callback is invoked; if
\* the offered view (overlay or active screen) answers Consumed with a
\* callback, that callback is invoked once and the global table is not
\* consulted; if it answers Consumed without a callback, nothing is invoked,
\* the table is not consulted and the context state is unchanged.
C15_ConsumedNoneNoChange ==
    [][pc = "dispatch" =>
           /\ Len(Invoked(siv')) <= 1
           /\ (Answer(siv').kind = "Consumed" /\ Answer(siv').cb # None) =>
                  /\ Invoked(siv') = <<Answer(siv').cb>>
                  /\ ~Made(siv', "global_callbacks.get")
           /\ Answer(siv') = Consumed(None) =>
                  /\ Invoked(siv') = <<>>
                  /\ ~Made(siv', "global_callbacks.get")
                  /\ Fields(siv') = Fields(siv)]_vars

\* C15, amended: as above, except that on Consumed without a callback the
\* context is unchanged apart from what the offered view changed in itself
\* while it handled the event (the overlay giving up the focus).
C15_AtMostOneCallback ==
    [][pc = "dispatch" =>
           /\ Len(Invoked(siv')) <= 1
           /\ (Answer(siv').kind = "Consumed" /\ Answer(siv').cb # None) =>
                  /\ Invoked(siv') = <<Answer(siv').cb>>
                  /\ ~Made(siv', "global_callbacks.get")
           /\ Answer(siv') = Consumed(None) =>
                  /\ Invoked(siv') = <<>>
                  /\ ~Made(siv', "global_callbacks.get")
                  /\ Besides(siv', receive_events(siv.menubar)) =
                         Besides(siv, receive_events(siv.menubar))]_vars

\* The overlay consumed an event without a callback and gave up the focus.
C15_Witness ==
    /\ pc = "loop"
    /\ Called(siv, "menubar.on_event")
    /\ Answer(siv) = Consumed(None)
    /\ ~siv.menubar.focused

\* ---- C16 --------------------------------------------------------------------
\* How many of the surfaces drawn into in the pass just made are marked
\* focused.
FocusedSurfaces(s) ==
    Cardinality({i \in 1..Len(s.trace) :
                    /\ s.trace[i].call \in {"menubar.draw", "screen.draw"}
                    /\ s.trace[i].with.focused})

\* C16: in the draw pass just made (draw changes no field, so the menubar is
\* as it was during the pass) exactly one surface is marked focused: the bar
\* is drawn exactly when it is visible (not autohide, or focused), before the
\* screen, and marked receiving events exactly when it has the focus; the
\* screen is marked focused exactly when the bar does not have the focus.
C16_OneFocus ==
    pc = "poll" =>
        /\ BarDrawn(siv) <=> ((~siv.menubar.autohide) \/ siv.menubar.focused)
        /\ BarDrawn(siv) =>
               /\ Calls(siv) = <<"menubar.draw", "screen.draw", "B.refresh">>
               /\ siv.trace[1].with.focused = siv.menubar.focused
        /\ ~BarDrawn(siv) => Calls(siv) = <<"screen.draw", "B.refresh">>
        /\ ScreenDraw(siv).focused = ~siv.menubar.focused
        /\ FocusedSurfaces(siv) = 1

\* The bar has the focus: it is drawn receiving events, the screen unfocused.
C16_Witness ==
    /\ pc = "poll"
    /\ siv.menubar.focused
    /\ BarDrawn(siv)
    /\ siv.trace[1].with.focused
    /\ ~ScreenDraw(siv).focused

\* ---- C17 --------------------------------------------------------------------
\* C17: with the overlay inactive, the polled event is offered once, to the
\* active screen, and there to its topmost layer only, never to a lower layer
\* or to a layer of another screen; a screen without layers answers Ignored;
\* and when the answer is Ignored the next thing the loop does with the event
\* is to look it up in the global table: no other layer is asked.
C17_TopmostOnly ==
    [][(pc = "dispatch" /\ ~siv.menubar.focused) =>
           LET act == ActiveLayers(siv) IN
           /\ Called(siv', "screen.on_event")
           /\ Offers(siv') = 1
           /\ siv'.trace[1].with.event = event
           /\ siv'.trace[1].with.offered =
                  IF Len(act) = 0 THEN <<>> ELSE <<act[Len(act)].id>>
           /\ Len(act) = 0 => Answer(siv') = Ignored
           /\ Answer(siv') = Ignored =>
                  /\ Len(siv'.trace) >= 2
                  /\ siv'.trace[2] =
                         [call |-> "global_callbacks.get", with |-> [event |-> event]]
           /\ Answer(siv') # Ignored => ~Made(siv', "global_callbacks.get")]_vars

\* The second screen is active and holds two layers, the first screen holds
\* one: the top layer of the second screen was asked and ignored the event.
C17_Witness ==
    /\ pc = "loop"
    /\ Called(siv, "screen.on_event")
    /\ Answer(siv) = Ignored
    /\ siv.active_screen = 1
    /\ Len(ActiveLayers(siv)) = 2
    /\ Len(siv.screens[1]) = 1
    /\ siv.trace[1].with.offered = <<ActiveLayers(siv)[2].id>>

\* ---- C18 --------------------------------------------------------------------
\* C18: in every iteration the layout of the active screen is given the full
\* size the backend reports at that moment, whatever the bar's autohide and
\* focus: the row the bar reserves is not taken off, so with autohide false
\* the draw that follows puts the screen one row down although it was laid
\* out for all the rows.
C18_LayoutFullSize ==
    [][/\ (pc = "loop" /\ siv.running) =>
            /\ Called(siv', "screen.layout")
            /\ siv'.trace[1].with.size = termSize
       /\ pc = "draw" =>
            /\ Called(siv, "screen.layout")
            /\ siv.trace[1].with.size = termSize
            /\ ~siv.menubar.autohide => ScreenDraw(siv').offset = 1]_vars

\* After a resize, with the bar's row reserved, the screen has been laid out
\* for the whole new terminal.
C18_Witness ==
    /\ pc = "draw"
    /\ ~siv.menubar.autohide
    /\ termSize # InitialSize
    /\ siv.trace[1].with.size = termSize

\* ---- C19 --------------------------------------------------------------------
\* The id the call just made returned.
Returned(s) == s.trace[Len(s.trace)].with.n

\* C19: the screen list only grows and existing ids keep their screens: in
\* every step the list is at least as long as before and every screen other
\* than the one that was active is as before; add_screen appends one empty
\* screen, returns the number of screens before the call and changes nothing
\* else; add_active_screen does the same and makes the returned id the
\* active index.
C19_ScreensOnlyGrow ==
    [][/\ Len(siv'.screens) >= Len(siv.screens)
       /\ \A i \in 1..Len(siv.screens) :
              i # siv.active_screen + 1 => siv'.screens[i] = siv.screens[i]
       /\ (Called(siv', "add_screen") /\ pc' # "dropped") =>
              /\ ~siv'.panicked
              /\ Returned(siv') = Len(siv.screens)
              /\ Fields(siv') = [Fields(siv) EXCEPT !.screens = Append(@, <<>>)]
       /\ (Called(siv', "add_active_screen") /\ pc' # "dropped") =>
              /\ ~siv'.panicked
              /\ Returned(siv') = Len(siv.screens)
              /\ Fields(siv') = [Fields(siv) EXCEPT !.screens = Append(@, <<>>),
                                                      !.active_screen = Len(siv.screens)]]_vars

\* add_active_screen returned id 1 beside a first screen that holds a layer.
C19_Witness ==
    /\ pc = "setup"
    /\ Called(siv, "add_active_screen")
    /\ Returned(siv) = 1
    /\ siv.active_screen = 1
    /\ Len(siv.screens) = 2
    /\ Len(siv.screens[1]) = 1

\* ---- C20 --------------------------------------------------------------------
\* C20: the running flag never goes back from stopped to running; a quit,
\* called directly or from a dispatched callback, leaves it stopped; and
\* when run finds the context stopped (called while stopped, or after the
\* iteration that quit) the only thing it does is return: no layout, no
\* draw, no backend poll, no field changed.
C20_StoppedForGood ==
    [][/\ ~siv.running => ~siv'.running
       /\ ((Called(siv', "quit") /\ pc' # "dropped") \/ (pc = "dispatch" /\ QuitInvoked(siv'))) =>
              ~siv'.running
       /\ (pc = "loop" /\ ~siv.running) =>
              /\ pc' = "setup"
              /\ Calls(siv') = <<"return">>
              /\ ~Iterates(siv')
              /\ Fields(siv') = Fields(siv)]_vars

\* run has just been called on a context that was already stopped.
C20_Witness ==
    /\ pc = "loop"
    /\ Called(siv, "run")
    /\ ~siv.running

====
